---- MODULE Spec2Model ----
(***************************************************************************)
(* WinFlipbook: a model of src/WinFlipbook/WinFlipbook.cpp.                *)
(*                                                                         *)
(* main() is one thread.  Its position is pc; every action is one          *)
(* statement (or one constructor / destructor / call chain link) of main.  *)
(* The user and the window system act concurrently through the Env*        *)
(* actions, which only queue events: GLFW hands them to the program in     *)
(* glfwPollEvents.  The state of the GL objects, of the shader program, of *)
(* the texture and of GLFW's key table is kept as the calls leave it.      *)
(***************************************************************************)
EXTENDS Integers, Sequences, FiniteSets

\* ------------------------------------------------------------ constants

NUMIMAGES == 10
RealWidth == 1024
RealHeight == 768
\* sizeof(unsigned) on every platform GLEW/GLFW build for
SizeofUnsigned == 4
\* char buffer[512] in shader_base::compile
InfoLogSize == 512
\* int is 32 bits wide: INT_MAX, INT_MIN
IntMax == 2147483647
IntMin == (-IntMax) - 1

\* ---------------------------------------------------------------- bounds

\* the canvas of the model: width is 3 or MaxWidth, height is 1..MaxHeight
MaxWidth == 12
MaxHeight == 2
\* window events waiting to be polled
MaxQueue == 2
\* loop iterations taken one at a time after each quiet stretch
MaxIter == 12
\* a quiet stretch of the render loop is 2^SkipBits iterations long
SkipBits == 29
\* the last quiet stretch stops this many iterations short of INT_MAX
OverflowMargin == 2
\* length of the driver's info log
MaxLogLen == 2

Widths == {3, MaxWidth}
Heights == 1..MaxHeight
BigStep == 2 ^ SkipBits

\* a pixel is four 8-bit channels; 0xffffffff is 0xff in each of them
White == <<255, 255, 255, 255>>
Black == <<0, 0, 0, 0>>
\* what a read outside the written buffer yields
Garbage == << <<-1>> >>

Shaders == {"vtx_shader", "frag_shader"}
\* the GL objects main creates
Objects == {"vao", "vtx_shader", "frag_shader", "program", "vbo", "ebo", "texture"}

VARIABLES
    pc,          \* position of main
    width,       \* const int width
    height,      \* const int height
    allocElems,  \* element counts of the arrays allocated with new unsigned[]
    images,      \* the elements written through p so far (p = images + Len)
    gi, gy, gx,  \* the generator's loop counters i, y, x
    stderrOut,   \* lines written to standard error
    status,      \* exit status of the process, "none" while it runs
    lastCall,    \* the library call issued last
    glfwUp,      \* glfwInit succeeded and glfwTerminate has not run
    window,      \* the window and its context exist
    glewUp,      \* glewInit returned GLEW_OK: the GL entry points are loaded
    sticky,      \* GLFW_STICKY_KEYS of the window
    keyState,    \* GLFW's entry for the escape key: RELEASE, PRESS, STICK
    shouldClose, \* the window's close flag
    events,      \* window events not yet polled
    keyDown,     \* the escape key is physically down
    created,     \* GL objects created
    released,    \* per object, the number of glDelete* calls issued for it
    compiled,    \* per shader object, its GL_COMPILE_STATUS and its info log
    thrown,      \* the runtime_error in flight: <<>> or <<[shader, what]>>
    attached,    \* shaders attached to the program, in order
    fragDataBound, \* glBindFragDataLocation(handle, 0, "outColor") was issued
    linked,      \* glLinkProgram was issued
    inUse,       \* glUseProgram(handle) was issued
    texData,     \* contents of the texture
    backBuffer,  \* what glDrawElements drew last
    frontBuffer, \* what glfwSwapBuffers presented last
    i,           \* int i of the render loop
    kmod         \* the number of the current loop iteration, modulo NUMIMAGES

genVars == <<width, height, allocElems, images, gi, gy, gx>>
procVars == <<stderrOut, status>>
glfwVars == <<glfwUp, window, glewUp, sticky, keyState, shouldClose>>
shaderVars == <<compiled, thrown>>
envVars == <<events, keyDown>>
objVars == <<created, released>>
progVars == <<attached, fragDataBound, linked, inUse>>
drawVars == <<texData, backBuffer, frontBuffer>>
loopVars == <<i, kmod>>

vars == <<pc, genVars, procVars, lastCall, glfwVars, envVars, objVars,
          shaderVars, progVars, drawVars, loopVars>>

\* ------------------------------------------------------------ generator

\* int bar = width * i / NUMIMAGES;
Bar(w, f) == (w * f) \div NUMIMAGES

\* int barw = width / NUMIMAGES;
BarW(w) == w \div NUMIMAGES

PixelValue_exclusive(w, f, x) ==
    IF x >= Bar(w, f) /\ x < Bar(w, f) + BarW(w) THEN White ELSE Black

\* if (x >= bar && x <= bar + barw) *p++ = 0xffffffff; else *p++ = 0;
PixelValue(w, f, x) ==
    IF x >= Bar(w, f) /\ x <= Bar(w, f) + BarW(w) THEN White ELSE Black

\* width * height * NUMIMAGES * 4, the operand of new unsigned[]
AllocCount(w, h) == w * h * NUMIMAGES * 4

Init ==
    /\ pc = "alloc"
    /\ width \in Widths
    /\ height \in Heights
    /\ allocElems = <<>>
    /\ images = <<>>
    /\ gi = 0 /\ gy = 0 /\ gx = 0
    /\ stderrOut = <<>>
    /\ status = "none"
    /\ lastCall = "none"
    /\ glfwUp = FALSE
    /\ window = FALSE
    /\ glewUp = FALSE
    /\ sticky = FALSE
    /\ keyState = "RELEASE"
    /\ shouldClose = FALSE
    /\ events = <<>>
    /\ keyDown = FALSE
    /\ created = {}
    /\ released = [o \in Objects |-> 0]
    /\ compiled = [o \in Shaders |-> [status |-> "none", log |-> <<>>]]
    /\ thrown = <<>>
    /\ attached = <<>>
    /\ fragDataBound = FALSE
    /\ linked = FALSE
    /\ inUse = FALSE
    /\ texData = <<>>
    /\ backBuffer = <<>>
    /\ frontBuffer = <<>>
    /\ i = 0
    /\ kmod = 0

\* images = new unsigned[width * height * NUMIMAGES * 4]; p = images;
Alloc ==
    /\ pc = "alloc"
    /\ allocElems' = Append(allocElems, AllocCount(width, height))
    /\ images' = <<>>
    /\ gi' = 0 /\ gy' = 0 /\ gx' = 0
    /\ pc' = "gen"
    /\ UNCHANGED <<width, height, procVars, lastCall, glfwVars, envVars, objVars,
                   shaderVars, progVars, drawVars, loopVars>>

\* one pass through the body of the innermost loop, and the loop headers
\* that follow it
GenStep ==
    /\ pc = "gen"
    /\ images' = Append(images, PixelValue(width, gi, gx))
    /\ IF gx + 1 < width
       THEN gx' = gx + 1 /\ gy' = gy /\ gi' = gi
       ELSE /\ gx' = 0
            /\ IF gy + 1 < height
               THEN gy' = gy + 1 /\ gi' = gi
               ELSE gy' = 0 /\ gi' = gi + 1
    /\ pc' = IF gi' < NUMIMAGES THEN "gen" ELSE "glfwInit"
    /\ UNCHANGED <<width, height, allocElems, procVars, lastCall, glfwVars,
                   envVars, objVars, shaderVars, progVars, drawVars, loopVars>>

\* ------------------------------------------------- the rest of the state

\* a statement that only issues a call
Call(from, to, name) ==
    /\ pc = from
    /\ pc' = to
    /\ lastCall' = name
    /\ UNCHANGED <<genVars, procVars, glfwVars, envVars, objVars, shaderVars,
                   progVars, drawVars, loopVars>>

\* the process ends with exit status s
Exits(s) ==
    /\ pc' = "exited"
    /\ status' = s

\* ------------------------------------------------- GLFW / GLEW start-up

\* if (!glfwInit()) { fprintf(stderr, ...); getchar(); return -1; }
GlfwInit ==
    /\ pc = "glfwInit"
    /\ lastCall' = "glfwInit"
    /\ \E ok \in BOOLEAN :
         /\ glfwUp' = ok
         /\ IF ok
            THEN /\ pc' = "createWindow"
                 /\ UNCHANGED stderrOut
            ELSE /\ stderrOut' = Append(stderrOut, "Failed to initialize GLFW")
                 /\ pc' = "getchar"
    /\ UNCHANGED <<genVars, status, window, glewUp, sticky, keyState,
                   shouldClose, envVars, objVars, shaderVars, progVars,
                   drawVars, loopVars>>

\* getchar(); return -1;
GetCharReturn ==
    /\ pc = "getchar"
    /\ Exits("-1")
    /\ UNCHANGED <<genVars, stderrOut, lastCall, glfwVars, envVars, objVars,
                   shaderVars, progVars, drawVars, loopVars>>

\* glfwCreateWindow with the test for NULL left out
CreateWindow_unchecked ==
    /\ pc = "createWindow"
    /\ \E ok \in BOOLEAN : window' = ok
    /\ lastCall' = "glfwCreateWindow"
    /\ pc' = "makeCurrent"
    /\ UNCHANGED <<genVars, procVars, glfwUp, glewUp, sticky, keyState,
                   shouldClose, envVars, objVars, shaderVars, progVars,
                   drawVars, loopVars>>

\* glfwWindowHint x5; window = glfwCreateWindow(...);
\* if (window == NULL) { cerr << ...; glfwTerminate(); return -1; }
CreateWindow ==
    /\ pc = "createWindow"
    /\ \E ok \in BOOLEAN :
         /\ window' = ok
         /\ IF ok
            THEN /\ lastCall' = "glfwCreateWindow"
                 /\ pc' = "makeCurrent"
                 /\ UNCHANGED <<stderrOut, status, glfwUp>>
            ELSE /\ stderrOut' = Append(stderrOut, "Failed to open GLFW window")
                 /\ glfwUp' = FALSE
                 /\ lastCall' = "glfwTerminate"
                 /\ Exits("-1")
    /\ UNCHANGED <<genVars, glewUp, sticky, keyState, shouldClose, envVars,
                   objVars, shaderVars, progVars, drawVars, loopVars>>

\* glfwMakeContextCurrent(window);
MakeContextCurrent == Call("makeCurrent", "glewInit", "glfwMakeContextCurrent")

\* if (glewInit() != GLEW_OK) { cerr << ...; glfwTerminate(); return -1; }
GlewInit ==
    /\ pc = "glewInit"
    /\ \E ok \in BOOLEAN :
         /\ glewUp' = ok
         /\ IF ok
            THEN /\ lastCall' = "glewInit"
                 /\ pc' = "printInfo"
                 /\ UNCHANGED <<stderrOut, status, glfwUp, window>>
            ELSE /\ stderrOut' = Append(stderrOut, "Failed to initialize GLEW")
                 /\ glfwUp' = FALSE
                 /\ window' = FALSE
                 /\ lastCall' = "glfwTerminate"
                 /\ Exits("-1")
    /\ UNCHANGED <<genVars, sticky, keyState, shouldClose, envVars, objVars,
                   shaderVars, progVars, drawVars, loopVars>>

\* cout << glGetString(GL_VENDOR) << glGetString(GL_RENDERER) << glGetString(GL_VERSION)
PrintInfo == Call("printInfo", "setInputMode", "glGetString")

\* glfwSetInputMode(window, GLFW_STICKY_KEYS, GL_TRUE);
SetInputMode ==
    /\ pc = "setInputMode"
    /\ sticky' = TRUE
    /\ lastCall' = "glfwSetInputMode"
    /\ pc' = "genVAO"
    /\ UNCHANGED <<genVars, procVars, glfwUp, window, glewUp, keyState, shouldClose,
                   envVars, objVars, shaderVars, progVars, drawVars, loopVars>>

\* ------------------------------------------------------ the environment

EnvOpen == window /\ status = "none" /\ Len(events) < MaxQueue

\* the user presses the escape key
EnvKeyPress ==
    /\ EnvOpen
    /\ ~keyDown
    /\ keyDown' = TRUE
    /\ events' = Append(events, "press")
    /\ UNCHANGED <<pc, genVars, procVars, lastCall, glfwVars, objVars, shaderVars,
                   progVars, drawVars, loopVars>>

\* the user lets go of the escape key
EnvKeyRelease ==
    /\ EnvOpen
    /\ keyDown
    /\ keyDown' = FALSE
    /\ events' = Append(events, "release")
    /\ UNCHANGED <<pc, genVars, procVars, lastCall, glfwVars, objVars, shaderVars,
                   progVars, drawVars, loopVars>>

\* the user asks the window system to close the window
EnvCloseRequest ==
    /\ EnvOpen
    /\ events' = Append(events, "close")
    /\ UNCHANGED <<pc, keyDown, genVars, procVars, lastCall, glfwVars, objVars,
                   shaderVars, progVars, drawVars, loopVars>>

\* ---------------------------------------------------------------- Setup

\* GL objects come into being with a release count of 0
Create(o) ==
    /\ created' = created \cup {o}
    /\ UNCHANGED released

\* a glDelete* call for object o
Release(o) ==
    /\ released' = [released EXCEPT ![o] = @ + 1]
    /\ UNCHANGED created

\* GLuint vao; glGenVertexArrays(1, &vao); glBindVertexArray(vao);
GenVAO ==
    /\ pc = "genVAO"
    /\ Create("vao")
    /\ lastCall' = "glBindVertexArray"
    /\ pc' = "vtxShader"
    /\ UNCHANGED <<genVars, procVars, glfwVars, envVars, shaderVars, progVars,
                   drawVars, loopVars>>

Letters == {"e"}
\* the info logs a driver may hold for a shader that failed to compile
Logs == UNION {[1..n -> Letters] : n \in 0..MaxLogLen}

\* glGetShaderInfoLog(shader_obj, 512, NULL, buffer): at most 511 characters
\* and the terminating null
InfoLog(log) ==
    IF Len(log) <= InfoLogSize - 1 THEN log ELSE SubSeq(log, 1, InfoLogSize - 1)

\* compile() with the test of the status left out
ShaderCtor_unchecked(o, from, to) ==
    /\ pc = from
    /\ Create(o)
    /\ \/ compiled' = [compiled EXCEPT ![o] = [status |-> "GL_TRUE", log |-> <<>>]]
       \/ \E log \in Logs :
            compiled' = [compiled EXCEPT ![o] = [status |-> "GL_FALSE", log |-> log]]
    /\ lastCall' = "glGetShaderiv"
    /\ pc' = to
    /\ UNCHANGED <<genVars, procVars, glfwVars, envVars, thrown, progVars,
                   drawVars, loopVars>>

\* shader_base::shader_base: glCreateShader, glShaderSource, compile();
\* compile(): glCompileShader, glGetShaderiv(GL_COMPILE_STATUS), and on a
\* status other than GL_TRUE glGetShaderInfoLog and throw runtime_error(buffer)
ShaderCtor(o, from, to) ==
    /\ pc = from
    /\ Create(o)
    /\ \/ /\ compiled' = [compiled EXCEPT ![o] = [status |-> "GL_TRUE", log |-> <<>>]]
          /\ lastCall' = "glGetShaderiv"
          /\ pc' = to
          /\ UNCHANGED thrown
       \/ \E log \in Logs :
            /\ compiled' = [compiled EXCEPT ![o] = [status |-> "GL_FALSE", log |-> log]]
            /\ lastCall' = "glGetShaderInfoLog"
            /\ thrown' = <<[shader |-> o, what |-> InfoLog(log)]>>
            /\ pc' = "uncaught"
    /\ UNCHANGED <<genVars, procVars, glfwVars, envVars, progVars, drawVars,
                   loopVars>>

\* vertex_shader vtx_shader(vertex_prog);
VtxShaderCtor == ShaderCtor("vtx_shader", "vtxShader", "fragShader")

\* fragment_shader frag_shader(fragment_prog);
FragShaderCtor == ShaderCtor("frag_shader", "fragShader", "programCtor")

\* The runtime_error leaves main, which has no handler: std::terminate and
\* abort.  Whether the stack is unwound first is implementation-defined; if
\* it is, the destructor of vtx_shader runs when frag_shader's constructor
\* threw.  An object whose constructor threw has no destructor call.
Uncaught ==
    /\ pc = "uncaught"
    /\ \E unwind \in BOOLEAN :
         IF unwind /\ thrown[1].shader = "frag_shader"
         THEN Release("vtx_shader") /\ lastCall' = "glDeleteShader"
         ELSE UNCHANGED <<objVars, lastCall>>
    /\ Exits("abort")
    /\ UNCHANGED <<genVars, stderrOut, glfwVars, envVars, shaderVars, progVars,
                   drawVars, loopVars>>

\* shader_program program;  handle = glCreateProgram();
ProgramCtor ==
    /\ pc = "programCtor"
    /\ Create("program")
    /\ lastCall' = "glCreateProgram"
    /\ pc' = "attachVtx"
    /\ UNCHANGED <<genVars, procVars, glfwVars, envVars, shaderVars, progVars,
                   drawVars, loopVars>>

\* program.attach(vtx_shader): glAttachShader(handle, shader_obj)
AttachVertex ==
    /\ pc = "attachVtx"
    /\ attached' = Append(attached, "vtx_shader")
    /\ lastCall' = "glAttachShader"
    /\ pc' = "attachFrag"
    /\ UNCHANGED <<genVars, procVars, glfwVars, envVars, objVars, shaderVars,
                   fragDataBound, linked, inUse, drawVars, loopVars>>

\* attach(fragment_shader&) without the glBindFragDataLocation call
AttachFragment_nobind ==
    /\ pc = "attachFrag"
    /\ attached' = Append(attached, "frag_shader")
    /\ lastCall' = "glAttachShader"
    /\ pc' = "link"
    /\ UNCHANGED <<genVars, procVars, glfwVars, envVars, objVars, shaderVars,
                   fragDataBound, linked, inUse, drawVars, loopVars>>

\* .attach(frag_shader): glAttachShader(handle, shader_obj);
\* glBindFragDataLocation(handle, 0, "outColor");
AttachFragment ==
    /\ pc = "attachFrag"
    /\ attached' = Append(attached, "frag_shader")
    /\ fragDataBound' = TRUE
    /\ lastCall' = "glBindFragDataLocation"
    /\ pc' = "link"
    /\ UNCHANGED <<genVars, procVars, glfwVars, envVars, objVars, shaderVars,
                   linked, inUse, drawVars, loopVars>>

\* .link(): glLinkProgram(handle)
Link ==
    /\ pc = "link"
    /\ linked' = TRUE
    /\ lastCall' = "glLinkProgram"
    /\ pc' = "use"
    /\ UNCHANGED <<genVars, procVars, glfwVars, envVars, objVars, shaderVars,
                   attached, fragDataBound, inUse, drawVars, loopVars>>

\* .use(): glUseProgram(handle)
Use ==
    /\ pc = "use"
    /\ inUse' = TRUE
    /\ lastCall' = "glUseProgram"
    /\ pc' = "vbo"
    /\ UNCHANGED <<genVars, procVars, glfwVars, envVars, objVars, shaderVars,
                   attached, fragDataBound, linked, drawVars, loopVars>>

\* GLuint vbo; glGenBuffers; glBindBuffer(GL_ARRAY_BUFFER); glBufferData
SetupVBO ==
    /\ pc = "vbo"
    /\ Create("vbo")
    /\ lastCall' = "glBufferData"
    /\ pc' = "posAttr"
    /\ UNCHANGED <<genVars, procVars, glfwVars, envVars, shaderVars, progVars,
                   drawVars, loopVars>>

\* auto pos_attr = program.attrib("position"): glGetAttribLocation
PosAttrLookup == Call("posAttr", "posPointer", "glGetAttribLocation")

\* glVertexAttribPointer(pos_attr, ...); glEnableVertexAttribArray(pos_attr);
PosAttrEnable == Call("posPointer", "ebo", "glEnableVertexAttribArray")

\* GLuint ebo; glGenBuffers; glBindBuffer(GL_ELEMENT_ARRAY_BUFFER); glBufferData
SetupEBO ==
    /\ pc = "ebo"
    /\ Create("ebo")
    /\ lastCall' = "glBufferData"
    /\ pc' = "dims"
    /\ UNCHANGED <<genVars, procVars, glfwVars, envVars, shaderVars, progVars,
                   drawVars, loopVars>>

\* auto dim_attr = program.uniform("dims"): glGetUniformLocation
DimsLookup == Call("dims", "dimsSet", "glGetUniformLocation")

\* glUniform2f(dim_attr, float(width), float(height));
DimsSet == Call("dimsSet", "frameCtor", "glUniform2f")

\* framebuffer frame(width, height): glGenTextures(1, &handle)
FrameCtor ==
    /\ pc = "frameCtor"
    /\ Create("texture")
    /\ lastCall' = "glGenTextures"
    /\ pc' = "frameBind"
    /\ UNCHANGED <<genVars, procVars, glfwVars, envVars, shaderVars, progVars,
                   drawVars, loopVars>>

\* frame.bind(): glBindTexture, glTexParameteri x4
FrameBind == Call("frameBind", "clear", "glTexParameteri")

\* glClearColor(0,0,0,1); glClear(GL_COLOR_BUFFER_BIT); int i = 0;
Clear ==
    /\ pc = "clear"
    /\ backBuffer' = <<>>
    /\ i' = 0
    /\ lastCall' = "glClear"
    /\ pc' = "upload"
    /\ UNCHANGED <<genVars, procVars, glfwVars, envVars, objVars, shaderVars,
                   progVars, texData, frontBuffer, kmod>>

\* ------------------------------------------------------------- Running

\* a % n as C++ computes it for n > 0: the sign of the result is a's
CMod(a, n) ==
    LET r == a % n
    IN IF a >= 0 \/ r = 0 THEN r ELSE r - n

\* (i%NUMIMAGES)*width*height, the offset added to images
SourceOffset(k) == CMod(k, NUMIMAGES) * width * height

\* the width*height elements glTexImage2D reads lie inside the allocation
InAllocation(off) ==
    /\ off >= 0
    /\ off + width * height <= allocElems[1]

\* the width*height elements at images + off; outside of what the generator
\* wrote the contents are indeterminate
ReadFrame(off) ==
    IF off >= 0 /\ off + width * height <= Len(images)
    THEN SubSeq(images, off + 1, off + width * height)
    ELSE Garbage

\* iterations are taken one at a time for MaxIter iterations after each
\* quiet stretch, and for the last iterations before INT_MAX
CanStep(k) ==
    \/ (k % BigStep) < MaxIter
    \/ k >= IntMax - OverflowMargin

\* frame.draw(images + (i%NUMIMAGES)*width*height): glTexImage2D.
\* A source outside the allocation is undefined behaviour: the call reads
\* whatever is there, or the process dies on the access.
Upload ==
    /\ pc = "upload"
    /\ CanStep(i)
    /\ lastCall' = "glTexImage2D"
    /\ \/ /\ texData' = ReadFrame(SourceOffset(i))
          /\ pc' = "drawElements"
          /\ UNCHANGED status
       \/ /\ ~InAllocation(SourceOffset(i))
          /\ Exits("crash")
          /\ UNCHANGED texData
    /\ UNCHANGED <<genVars, stderrOut, glfwVars, envVars, objVars, shaderVars,
                   progVars, backBuffer, frontBuffer, loopVars>>

\* glDrawElements(GL_TRIANGLES, 6, GL_UNSIGNED_INT, 0): the quad is drawn
\* with the texture's contents
DrawElements ==
    /\ pc = "drawElements"
    /\ backBuffer' = texData
    /\ lastCall' = "glDrawElements"
    /\ pc' = "swap"
    /\ UNCHANGED <<genVars, procVars, glfwVars, envVars, objVars, shaderVars,
                   progVars, texData, frontBuffer, loopVars>>

\* glfwSwapBuffers(window);
SwapBuffers ==
    /\ pc = "swap"
    /\ frontBuffer' = backBuffer
    /\ lastCall' = "glfwSwapBuffers"
    /\ pc' = "poll"
    /\ UNCHANGED <<genVars, procVars, glfwVars, envVars, objVars, shaderVars,
                   progVars, texData, backBuffer, loopVars>>

\* GLFW's key table entry after a key event (_glfwInputKey): a release of
\* a key that is up is ignored; with sticky keys a release leaves STICK
InputKey(ks, action, stickyKeys) ==
    IF action = "press" THEN "PRESS"
    ELSE IF ks = "RELEASE" THEN "RELEASE"
    ELSE IF stickyKeys THEN "STICK"
    ELSE "RELEASE"

\* the window's state after the queued events evs, oldest first
RECURSIVE ProcessEvents(_, _, _)
ProcessEvents(evs, ks, sc) ==
    IF evs = <<>> THEN [key |-> ks, close |-> sc]
    ELSE IF Head(evs) = "close" THEN ProcessEvents(Tail(evs), ks, TRUE)
    ELSE ProcessEvents(Tail(evs), InputKey(ks, Head(evs), sticky), sc)

\* glfwPollEvents(): every pending event is processed
PollEvents ==
    /\ pc = "poll"
    /\ LET after == ProcessEvents(events, keyState, shouldClose)
       IN /\ keyState' = after.key
          /\ shouldClose' = after.close
    /\ events' = <<>>
    /\ lastCall' = "glfwPollEvents"
    /\ pc' = "incr"
    /\ UNCHANGED <<genVars, procVars, glfwUp, window, glewUp, sticky, keyDown, objVars,
                   shaderVars, progVars, drawVars, loopVars>>

\* ++i.  At INT_MAX the increment overflows, which is undefined: the value
\* wraps to INT_MIN, or the process traps.
Incr ==
    /\ pc = "incr"
    /\ kmod' = (kmod + 1) % NUMIMAGES
    /\ IF i < IntMax
       THEN i' = i + 1 /\ pc' = "test" /\ UNCHANGED status
       ELSE \/ i' = IntMin /\ pc' = "test" /\ UNCHANGED status
            \/ Exits("abort") /\ UNCHANGED i
    /\ UNCHANGED <<genVars, stderrOut, lastCall, glfwVars, envVars, objVars,
                   shaderVars, progVars, drawVars>>

\* what glfwGetKey returns for a key table entry: STICK reads as PRESS
GetKeyIsPress(ks) == ks \in {"PRESS", "STICK"}

\* the while condition with || for &&
LoopContinues_or(ks, sc) == ~GetKeyIsPress(ks) \/ sc = FALSE

\* glfwGetKey(window, GLFW_KEY_ESCAPE) != GLFW_PRESS
\*   && glfwWindowShouldClose(window) == 0
LoopContinues(ks, sc) == ~GetKeyIsPress(ks) /\ sc = FALSE

\* the test of the do/while; glfwGetKey resets a STICK entry to RELEASE
ExitTest ==
    /\ pc = "test"
    /\ keyState' = IF keyState = "STICK" THEN "RELEASE" ELSE keyState
    /\ lastCall' = IF GetKeyIsPress(keyState) THEN "glfwGetKey"
                   ELSE "glfwWindowShouldClose"
    /\ pc' = IF LoopContinues(keyState, shouldClose) THEN "upload" ELSE "delEBO"
    /\ UNCHANGED <<genVars, procVars, glfwUp, window, glewUp, sticky, shouldClose,
                   envVars, objVars, shaderVars, progVars, drawVars, loopVars>>

\* the length of the quiet stretch that starts at counter value k
QuietLen(k) ==
    IF k <= (IntMax - OverflowMargin) - BigStep THEN BigStep
    ELSE (IntMax - OverflowMargin) - k

\* QuietLen(i) iterations of the loop during which no event arrives: every
\* one uploads, draws, swaps, polls nothing, increments, and finds the key
\* up and the close flag clear
RunQuiet ==
    /\ pc = "upload"
    /\ events = <<>>
    /\ i >= 0
    /\ (i % BigStep) < MaxIter
    /\ QuietLen(i) >= 1
    /\ LET n == QuietLen(i)
           last == ReadFrame(SourceOffset(i + (n - 1)))
       IN /\ i' = i + n
          /\ kmod' = (kmod + n) % NUMIMAGES
          /\ texData' = last
          /\ backBuffer' = last
          /\ frontBuffer' = last
    /\ lastCall' = "glfwWindowShouldClose"
    /\ pc' = "upload"
    /\ UNCHANGED <<genVars, procVars, glfwVars, envVars, objVars, shaderVars,
                   progVars>>

\* -------------------------------------------------------- ShuttingDown

\* a statement that issues one glDelete* call for object o
Delete(from, to, o, name) ==
    /\ pc = from
    /\ Release(o)
    /\ lastCall' = name
    /\ pc' = to
    /\ UNCHANGED <<genVars, procVars, glfwVars, envVars, shaderVars, progVars,
                   drawVars, loopVars>>

\* glDeleteBuffers(1, &ebo);
DeleteEBO == Delete("delEBO", "delVBO", "ebo", "glDeleteBuffers")

\* glDeleteBuffers(1, &vbo);
DeleteVBO == Delete("delVBO", "delVAO", "vbo", "glDeleteBuffers")

\* glDeleteVertexArrays(1, &vao);
DeleteVAO == Delete("delVAO", "terminate", "vao", "glDeleteVertexArrays")

\* glfwTerminate(): the window and its context are destroyed
Terminate ==
    /\ pc = "terminate"
    /\ glfwUp' = FALSE
    /\ window' = FALSE
    /\ lastCall' = "glfwTerminate"
    /\ pc' = "dtorFrame"
    /\ UNCHANGED <<genVars, procVars, glewUp, sticky, keyState, shouldClose, envVars,
                   objVars, shaderVars, progVars, drawVars, loopVars>>

\* return 0 destroys main's locals in reverse order of construction:
\* ~framebuffer(): glDeleteTextures(1, &handle)
DtorFrame == Delete("dtorFrame", "dtorProgram", "texture", "glDeleteTextures")

\* ~shader_program(): glDeleteProgram(handle)
DtorProgram == Delete("dtorProgram", "dtorFrag", "program", "glDeleteProgram")

\* ~shader_base() of frag_shader: glDeleteShader(shader_obj)
DtorFrag == Delete("dtorFrag", "dtorVtx", "frag_shader", "glDeleteShader")

\* ~shader_base() of vtx_shader: glDeleteShader(shader_obj)
DtorVtx == Delete("dtorVtx", "return0", "vtx_shader", "glDeleteShader")

\* main returns 0
Return0 ==
    /\ pc = "return0"
    /\ Exits("0")
    /\ UNCHANGED <<genVars, stderrOut, lastCall, glfwVars, envVars, objVars,
                   shaderVars, progVars, drawVars, loopVars>>

Next ==
    \/ Alloc
    \/ GenStep
    \/ GlfwInit
    \/ GetCharReturn
    \/ CreateWindow
    \/ MakeContextCurrent
    \/ GlewInit
    \/ PrintInfo
    \/ SetInputMode
    \/ EnvKeyPress
    \/ EnvKeyRelease
    \/ EnvCloseRequest
    \/ GenVAO
    \/ VtxShaderCtor
    \/ FragShaderCtor
    \/ Uncaught
    \/ ProgramCtor
    \/ AttachVertex
    \/ AttachFragment
    \/ Link
    \/ Use
    \/ SetupVBO
    \/ PosAttrLookup
    \/ PosAttrEnable
    \/ SetupEBO
    \/ DimsLookup
    \/ DimsSet
    \/ FrameCtor
    \/ FrameBind
    \/ Clear
    \/ Upload
    \/ DrawElements
    \/ SwapBuffers
    \/ PollEvents
    \/ Incr
    \/ ExitTest
    \/ RunQuiet
    \/ DeleteEBO
    \/ DeleteVBO
    \/ DeleteVAO
    \/ Terminate
    \/ DtorFrame
    \/ DtorProgram
    \/ DtorFrag
    \/ DtorVtx
    \/ Return0

Spec == Init /\ [][Next]_vars

\* --------------------------------------------------------------- phases

SetupPCs == {"genVAO", "vtxShader", "fragShader", "programCtor", "attachVtx",
             "attachFrag", "link", "use", "vbo", "posAttr", "posPointer", "ebo",
             "dims", "dimsSet", "frameCtor", "frameBind", "clear"}
RunningPCs == {"upload", "drawElements", "swap", "poll", "incr", "test"}
ShuttingDownPCs == {"delEBO", "delVBO", "delVAO", "terminate", "dtorFrame",
                    "dtorProgram", "dtorFrag", "dtorVtx", "return0"}

\* the GL calls main issues
GLCalls == {"glGetString", "glBindVertexArray", "glGetShaderiv",
            "glGetShaderInfoLog", "glCreateProgram", "glAttachShader",
            "glBindFragDataLocation", "glLinkProgram", "glUseProgram",
            "glBufferData", "glGetAttribLocation", "glEnableVertexAttribArray",
            "glGetUniformLocation", "glUniform2f", "glGenTextures",
            "glTexParameteri", "glClear", "glTexImage2D", "glDrawElements",
            "glDeleteBuffers", "glDeleteVertexArrays", "glDeleteTextures",
            "glDeleteProgram", "glDeleteShader"}

\* main has left the render loop through its test
ReachedShuttingDown == released["ebo"] >= 1

\* ------------------------------------------------------------------- C1

\* the columns the specification gives to the bar of frame f on a canvas w wide
SpecBarColumn(w, f, x) ==
    /\ (f * w) \div NUMIMAGES <= x
    /\ x <= (f * w) \div NUMIMAGES + w \div NUMIMAGES

\* the columns of the 1024 wide canvas that frame f paints white
RealBarColumns(f) ==
    {x \in 0..(RealWidth - 1) : PixelValue(RealWidth, f, x) = White}

RealBarsAsStated ==
    /\ RealBarColumns(0) = 0..102
    /\ RealBarColumns(NUMIMAGES - 1) = 921..1023

\* C1: every pixel the generator has written, and once it is done pixel
\* (x, y) of every frame f as the render loop addresses it, is opaque white
\* exactly when f*width/N <= x <= f*width/N + width/N and transparent black
\* otherwise; on the 1024 wide canvas frame 0 paints columns 0..102 and
\* frame 9 columns 921..1023.
C1_BarColumns ==
    /\ pc = "gen" =>
         \A idx \in 1..Len(images) :
           LET k == idx - 1
               f == k \div (width * height)
               x == k % width
           IN /\ f \in 0..(NUMIMAGES - 1)
              /\ images[idx] = IF SpecBarColumn(width, f, x) THEN White ELSE Black
    /\ pc \notin {"alloc", "gen"} =>
         /\ Len(images) = NUMIMAGES * width * height
         /\ \A f \in 0..(NUMIMAGES - 1) :
              LET frame == ReadFrame(f * width * height)
              IN \A y \in 0..(height - 1) : \A x \in 0..(width - 1) :
                   frame[y * width + x + 1]
                     = IF SpecBarColumn(width, f, x) THEN White ELSE Black
    /\ RealBarsAsStated

\* the generator has finished a canvas wide enough for a bar of two columns
C1_Witness ==
    /\ pc = "glfwInit"
    /\ width = MaxWidth
    /\ height = MaxHeight
    /\ BarW(width) >= 1
    /\ \E idx \in 1..Len(images) : images[idx] = White
    /\ \E idx \in 1..Len(images) : images[idx] = Black

\* ------------------------------------------------------------------- C2

\* C2: in iteration k of the loop the texture holds generated frame k mod N
\* from the upload on, and the quad drawn after it shows that frame.
C2_FrameCycle ==
    /\ pc \in {"drawElements", "swap", "poll", "incr"} =>
         texData = ReadFrame(kmod * width * height)
    /\ pc \in {"swap", "poll", "incr"} => backBuffer = texData

\* ------------------------------------------------------------------- C3

\* C3 as stated: the test leaves the loop exactly when the escape key is
\* down as of the events polled so far, or the close flag is set.
C3_LevelTriggered ==
    [][(pc = "test" /\ pc' # "test") =>
         ((pc' = "delEBO") <=> (keyState = "PRESS" \/ shouldClose))]_vars

\* C3 as amended: the test is reached only from the increment that follows
\* the poll, the loop is left only at the test, and the test leaves the loop
\* exactly when the key table entry reads as pressed (the key is down, or
\* with sticky keys a press was polled since the key was last sampled) or
\* the close flag is set.
C3_StickyExit ==
    /\ [][(pc = "test" /\ pc' # "test") =>
            /\ pc' \in {"upload", "delEBO"}
            /\ (pc' = "delEBO") <=>
                 (keyState \in {"PRESS", "STICK"} \/ shouldClose)]_vars
    /\ [][(pc' = "test" /\ pc # "test") =>
            (pc = "incr" /\ lastCall = "glfwPollEvents")]_vars
    /\ [][(pc \in RunningPCs /\ pc' \in ShuttingDownPCs) => pc = "test"]_vars

\* the loop was left although the key is up and no close was requested
C3_Witness ==
    /\ pc = "delEBO"
    /\ ~keyDown
    /\ keyState = "RELEASE"
    /\ ~shouldClose

\* ------------------------------------------------------------------- C4

\* C4: Setup and everything after it runs only with GLFW, the window and
\* GLEW up and nothing written to standard error; a process that wrote a
\* failure to standard error created no GL object, compiled, attached,
\* uploaded and drew nothing, and ends with status -1; a process that ends
\* without having created a GL object is such a failure; a process that
\* went through ShuttingDown ends with status 0.
C4_ExitStatus ==
    /\ pc \in SetupPCs \cup RunningPCs =>
         glfwUp /\ window /\ glewUp /\ stderrOut = <<>>
    /\ stderrOut # <<>> =>
         /\ Len(stderrOut) = 1
         /\ created = {}
         /\ \A o \in Shaders : compiled[o].status = "none"
         /\ attached = <<>> /\ ~linked /\ ~inUse
         /\ texData = <<>> /\ backBuffer = <<>> /\ frontBuffer = <<>>
         /\ pc \in {"getchar", "exited"}
         /\ ~(glfwUp /\ window /\ glewUp)
         /\ pc = "exited" => status = "-1"
    /\ (pc = "exited" /\ created = {}) => (status = "-1" /\ stderrOut # <<>>)
    /\ (pc = "exited" /\ ReachedShuttingDown) => status = "0"
    /\ status = "0" => ReachedShuttingDown

\* glewInit failed after GLFW and the window came up, and the process has
\* ended
C4_Witness ==
    /\ pc = "exited"
    /\ status = "-1"
    /\ stderrOut = <<"Failed to initialize GLEW">>
    /\ lastCall = "glfwTerminate"
    /\ created = {}

\* ------------------------------------------------------------------- C5

\* C5: a shader whose compile status is not GL_TRUE has its info log thrown
\* as a runtime_error; from then on nothing is attached, linked, used,
\* uploaded or drawn, main is never in Running, and the process does not
\* end with status 0.
C5_CompileFailureFatal ==
    /\ \A o \in Shaders : compiled[o].status = "GL_FALSE" =>
         /\ thrown # <<>>
         /\ thrown[1].shader = o
         /\ thrown[1].what = InfoLog(compiled[o].log)
    /\ thrown # <<>> =>
         /\ compiled[thrown[1].shader].status = "GL_FALSE"
         /\ attached = <<>> /\ ~fragDataBound /\ ~linked /\ ~inUse
         /\ texData = <<>> /\ backBuffer = <<>> /\ frontBuffer = <<>>
         /\ lastCall \in {"glGetShaderInfoLog", "glDeleteShader"}
         /\ pc \in {"uncaught", "exited"}
         /\ status \in {"none", "abort"}
         /\ pc = "exited" => status = "abort"

\* the fragment shader failed to compile with a non-empty log and the
\* process has ended
C5_Witness ==
    /\ pc = "exited"
    /\ compiled["frag_shader"].status = "GL_FALSE"
    /\ thrown # <<>>
    /\ Len(thrown[1].what) >= 1

\* ------------------------------------------------------------------- C6

\* C6: when the process has ended, every GL object it created has received
\* exactly one release call.
C6_ReleasedOnce ==
    pc = "exited" => \A o \in created : released[o] = 1

\* ------------------------------------------------------------------- C7

\* C7: the fragment shader is attached after the vertex shader and together
\* with the binding of its output; the program is linked only with both
\* attached and the output bound, used only when linked; locations are
\* looked up and the quad is drawn only with the program in use.
C7_BuildOrder ==
    /\ (\E n \in 1..Len(attached) : attached[n] = "frag_shader") =>
         (attached = <<"vtx_shader", "frag_shader">> /\ fragDataBound)
    /\ fragDataBound => attached = <<"vtx_shader", "frag_shader">>
    /\ Len(attached) <= 2
    /\ linked => (attached = <<"vtx_shader", "frag_shader">> /\ fragDataBound)
    /\ inUse => linked
    /\ lastCall \in {"glGetAttribLocation", "glGetUniformLocation",
                     "glDrawElements"} => inUse
    /\ (backBuffer # <<>> \/ pc \in RunningPCs) => inUse

\* the quad has just been drawn
C7_Witness ==
    /\ pc = "swap"
    /\ lastCall = "glDrawElements"
    /\ inUse
    /\ backBuffer # <<>>

\* ------------------------------------------------------------------- C8

\* C8: there is one allocation, and it is width*height*N*4 bytes long.
C8_AllocBytes ==
    allocElems # <<>> =>
      /\ Len(allocElems) = 1
      /\ allocElems[1] * SizeofUnsigned = width * height * NUMIMAGES * 4

\* ------------------------------------------------------------------- C9

\* C9: whenever a frame is about to be uploaded, i mod N is in [0, N) and
\* the frame read at (i mod N)*width*height lies inside the image buffer.
C9_IndexInRange ==
    pc = "upload" =>
      /\ CMod(i, NUMIMAGES) \in 0..(NUMIMAGES - 1)
      /\ InAllocation(SourceOffset(i))

\* ------------------------------------------------------------------ C10

\* C10: once glfwTerminate has run on the normal exit path, no GL call is
\* issued any more.
C10_NoGLAfterTerminate ==
    (ReachedShuttingDown /\ ~window) => lastCall \notin GLCalls

====
